---- MODULE Spec2Model ----
(***************************************************************************)
(* Model of the olrs indexing engine: WhooshBackend and BackendManager of  *)
(* src/olrs/indexer.py, with the whoosh analyzers and query classes they   *)
(* call modelled by what they compute on a small vocabulary.               *)
(*                                                                         *)
(* A word is a sequence of one-character strings; a page text and a query  *)
(* are sequences of words, i.e. the text after the tokenizer's split.  The *)
(* vocabulary holds only alphanumeric words separated by blanks, on which  *)
(* str.split() and whoosh's RegexTokenizer give the same words; the empty  *)
(* and the whitespace-only query both split to the empty sequence.         *)
(***************************************************************************)
EXTENDS Integers, Sequences, FiniteSets, TLC

VARIABLES
    dirs,      \* the language directories under index_root
    disk,      \* the content index stored in each language directory
    indexes,   \* the keys of WhooshBackend.indexes
    last,      \* the latest call and how it ended
    sugg,      \* the suggest index stored in each <language>/suggest directory
    handles,   \* the keys of SuggestManager._handles
    SYN,       \* the module-level synonym dictionary of suggest.py
    synonyms,  \* SynonymManager.synonyms
    syn_file,  \* synonyms.json
    workers,   \* the PDFIndexWorker threads: batch, position and emitted signals
    writers,   \* the threads that hold an open writer on each language index
    gui        \* the call the GUI thread is in

vars == <<dirs, disk, indexes, last, sugg, handles, SYN, synonyms, syn_file,
          workers, writers, gui>>

\* The state of the suggest engine and of the synonym store
suggest_vars == <<sugg, handles, SYN>>
synonym_vars == <<synonyms, syn_file>>
\* The state of the threads
thread_vars == <<workers, writers, gui>>

----------------------------------------------------------------------------
(* Bounds of the model *)

\* Records held by all language indexes together
MaxRecords == 2
\* Words of the synonym store, and synonyms of one word
MaxWords == 1
MaxSynonyms == 2
\* Entries held by all suggest indexes together
MaxSuggest == 2
\* The limit argument of combined_suggest is in 1..MaxLimit
MaxLimit == 3

(* Program constants *)

\* NgramWordAnalyzer(minsize=3, maxsize=20)
NgramMin == 3
NgramMax == 20
\* FuzzyTerm(field, token, maxdist=1) runs with whoosh's default prefixlength
FuzzyPrefixLength == 1
\* StopFilter(minsize=2) inside StemmingAnalyzer and StandardAnalyzer
StopMinSize == 2
\* search(..., limit=50)
SearchLimit == 50

----------------------------------------------------------------------------
(* Vocabulary *)

w_court  == <<"c", "o", "u", "r", "t">>
w_courts == <<"c", "o", "u", "r", "t", "s">>
W_Courts == <<"C", "o", "u", "r", "t", "s">>
w_act    == <<"a", "c", "t">>
w_ourt   == <<"o", "u", "r", "t">>
w_coart  == <<"c", "o", "a", "r", "t">>
w_coarts == <<"c", "o", "a", "r", "t", "s">>
w_tourt  == <<"t", "o", "u", "r", "t">>
w_a      == <<"a">>
w_co     == <<"c", "o">>
w_bench  == <<"b", "e", "n", "c", "h">>
W_Court  == <<"C", "o", "u", "r", "t">>

\* Page texts given to add_page
Texts == { <<W_Courts, w_act>>, <<w_act, w_court>> }

\* Query strings given to search, split on whitespace
Queries == { <<>>, <<w_ourt>>, <<W_Courts, w_act>>, <<w_act, W_Courts>>,
             <<w_coarts>>, <<w_coart>>, <<w_tourt>>,
             <<W_Court>>, <<w_court>>, <<w_act, W_Court>>, <<w_act, w_court>> }

Langs == {"en", "fr"}
\* The sources add_pdf hands to the worker: a document id and its file
Sources == { [doc_id |-> "A1", path |-> "court.pdf"], [doc_id |-> "B2", path |-> "a.pdf"] }
DocIds == { s.doc_id : s \in Sources }
Paths == { s.path : s \in Sources }
\* The page number is a stored field and a part of the entry id only; the
\* worker passes section=None
Pages == {1}
Sections == {""}

\* Terms given to add_terms (one of them the empty string), each set(terms)
\* in an order its iteration may take, and the weights
SuggestTerms == { w_court, w_coart, <<>> }
TermLists ==
    { <<t>> : t \in SuggestTerms }
        \cup { <<p[1], p[2]>> : p \in { q \in SuggestTerms \X SuggestTerms : q[1] # q[2] } }
Weights == {1, 2}
\* Strings typed for completion
SuggestQueries == { w_co, w_court, W_Court }

\* The threads that run PDFIndexWorker.run
WorkerIds == {"w1", "w2"}
\* The sources of a batch: the dicts with doc_id, path and lang
s_court == [doc_id |-> "A1", path |-> "court.pdf", lang |-> "en"]
s_a == [doc_id |-> "B2", path |-> "a.pdf", lang |-> "en"]
\* The batches given to a worker
Batches == { <<s_court>>, <<s_a, s_court>> }
\* What the GUI thread searches for
GuiQuery == <<W_Courts, w_act>>

\* SearchMode (common.py) and one value that is not a SearchMode
PARTIAL == "partial"
WHOLE == "whole"
FUZZY == "fuzzy"
SearchMode == {PARTIAL, WHOLE, FUZZY}
Modes == SearchMode \cup {"regex"}

\* lang=None of search and clear_index
None == "None"
NoIndex == [analyzer |-> "none", docs |-> <<>>]

\* A language directory without a suggest directory
NoSuggest == [present |-> FALSE, docs |-> <<>>]
\* SYN = {} when synonyms.json does not exist
NoSynonyms == <<>>
\* What a synonyms.json may hold, written by save_synonyms or by hand
SynFiles == { NoSynonyms, w_court :> <<w_coart, w_bench>>, W_Court :> <<w_bench, w_bench>> }
\* synonyms.json: absent, or holding a mapping
NoSynFile == [exists |-> FALSE, data |-> NoSynonyms]
SynFileStates == {NoSynFile} \cup { [exists |-> TRUE, data |-> f] : f \in SynFiles }
\* What is typed into the dialogs of the synonym manager
Typed == { <<" ">>, W_Court, <<" ">> \o w_bench }

----------------------------------------------------------------------------
(* Strings *)

\* str.lower() on one character
LowerChar(c) == IF c = "C" THEN "c" ELSE c

Lower(w) == [i \in 1..Len(w) |-> LowerChar(w[i])]

\* Path(pdf_path).stem, as the words of the title
PathStem(p) == IF p = "court.pdf" THEN <<w_court>> ELSE <<w_a>>

\* The words of a section heading
SectionWords(s) == <<>>

\* uid = f"{doc_id}#{pdf_path}#{page}#{section or ''}"
Uid(doc_id, pdf_path, page, section) ==
    doc_id \o "#" \o pdf_path \o "#" \o ToString(page) \o "#" \o section

----------------------------------------------------------------------------
(* Analyzers *)

\* whoosh.analysis STOP_WORDS, the part over the vocabulary's alphabet
STOP_WORDS == { w_a, <<"a", "s">>, <<"a", "t">>, <<"o", "r">>, <<"t", "o">>, <<"u", "s">> }

\* whoosh.lang.porter.stem: only step 1a can change a word over the
\* vocabulary's alphabet (no e, i, l, y, no suffix of steps 1b-5)
stem(w) ==
    IF Len(w) < 3 THEN w
    ELSE IF w[Len(w)] = "s" /\ w[Len(w) - 1] # "s" THEN SubSeq(w, 1, Len(w) - 1)
    ELSE w

\* The tokens a StopFilter keeps, positions renumbered
RECURSIVE Filter(_, _)
Filter(ws, i) ==
    IF i > Len(ws) THEN <<>>
    ELSE IF Len(ws[i]) < StopMinSize \/ ws[i] \in STOP_WORDS THEN Filter(ws, i + 1)
    ELSE <<ws[i]>> \o Filter(ws, i + 1)

\* StandardAnalyzer: RegexTokenizer | LowercaseFilter | StopFilter
StandardAnalyzer(ws) ==
    LET kept == Filter([i \in 1..Len(ws) |-> Lower(ws[i])], 1)
    IN  { <<kept[i], i>> : i \in 1..Len(kept) }

\* StemmingAnalyzer: RegexTokenizer | LowercaseFilter | StopFilter | StemFilter
StemmingAnalyzer(ws) ==
    { <<stem(p[1]), p[2]>> : p \in StandardAnalyzer(ws) }

\* NgramFilter in index mode: every substring of minsize..maxsize characters
Ngrams(w) ==
    { SubSeq(w, p[1], p[2]) :
        p \in { q \in (1..Len(w)) \X (1..Len(w)) :
                  /\ q[2] - q[1] + 1 >= NgramMin
                  /\ q[2] - q[1] + 1 <= NgramMax } }

\* NgramFilter in query mode: the substrings of min(maxsize, len) characters
\* of a token of at least minsize characters
QueryNgrams(w) ==
    LET size == IF Len(w) < NgramMax THEN Len(w) ELSE NgramMax
    IN  IF Len(w) < NgramMin THEN {}
        ELSE { SubSeq(w, s, s + size - 1) : s \in 1..(Len(w) - size + 1) }

\* NgramWordAnalyzer: RegexTokenizer | LowercaseFilter | NgramFilter; an
\* n-gram keeps the position of the word it is cut from
NgramWordAnalyzer(ws) ==
    UNION { { <<g, i>> : g \in Ngrams(Lower(ws[i])) } : i \in 1..Len(ws) }

\* The analyzer of the content field, as pickled in the index's schema
Analyze(analyzer, ws) ==
    IF analyzer = "ngram" THEN NgramWordAnalyzer(ws) ELSE StemmingAnalyzer(ws)

\* The postings of the content field for each analyzer and page text
ContentTerms == [a \in {"stem", "ngram"} |-> [t \in Texts |-> Analyze(a, t)]]

\* The postings of a record's indexed fields (the schema of lines 73-81):
\* content under the index's analyzer, title and section under the default
\* analyzer of TEXT.  An index keeps the schema it was created with, so
\* the postings written with a record are those computed here.
Terms(analyzer, r, field) ==
    IF field = "content" THEN ContentTerms[analyzer][r.content]
    ELSE IF field = "title" THEN StandardAnalyzer(r.title)
    ELSE StandardAnalyzer(SectionWords(r.section))

\* The terms a field's analyzer makes of one query token (mode="query")
QueryTerms(analyzer, field, token) ==
    IF field = "content" /\ analyzer = "ngram" THEN QueryNgrams(Lower(token))
    ELSE IF field = "content" THEN { p[1] : p \in StemmingAnalyzer(<<token>>) }
    ELSE { p[1] : p \in StandardAnalyzer(<<token>>) }

----------------------------------------------------------------------------
(* Queries *)

Fields == <<"content", "title", "section">>

\* whoosh.support.levenshtein.distance(a, b) <= 1: equal, or one
\* substitution, insertion, deletion or transposition of neighbours
Within1(a, b) ==
    \/ a = b
    \/ /\ Len(a) = Len(b)
       /\ \E i \in 1..Len(a) : \A j \in 1..Len(a) : j # i => a[j] = b[j]
    \/ /\ Len(a) = Len(b)
       /\ \E i \in 1..(Len(a) - 1) :
             /\ a[i] = b[i + 1] /\ a[i + 1] = b[i]
             /\ \A j \in 1..Len(a) : j \notin {i, i + 1} => a[j] = b[j]
    \/ /\ Len(a) = Len(b) + 1
       /\ \E i \in 1..Len(a) : b = SubSeq(a, 1, i - 1) \o SubSeq(a, i + 1, Len(a))
    \/ /\ Len(b) = Len(a) + 1
       /\ \E i \in 1..Len(b) : a = SubSeq(b, 1, i - 1) \o SubSeq(b, i + 1, Len(b))

\* FuzzyTerm(field, text, maxdist=1): terms_within over the terms that
\* share the first prefixlength characters of text
FuzzyTerm(terms, text) ==
    \E p \in terms :
        /\ Len(p[1]) >= FuzzyPrefixLength
        /\ Len(text) >= FuzzyPrefixLength
        /\ SubSeq(p[1], 1, FuzzyPrefixLength) = SubSeq(text, 1, FuzzyPrefixLength)
        /\ Within1(p[1], text)

\* Term(field, text)
Term(terms, text) == \E p \in terms : p[1] = text

\* Phrase(field, words): the words at consecutive positions
Phrase(terms, words) ==
    \E p \in terms : \A i \in 1..Len(words) : <<words[i], p[2] + i - 1>> \in terms

\* One entry of query_list, as search builds it for a token (lines 124-141)
SubQueries(mode, tokens, token) ==
    IF mode = FUZZY
      THEN [f \in 1..3 |-> [kind |-> "FuzzyTerm", field |-> Fields[f], words |-> <<Lower(token)>>]]
    ELSE IF mode = WHOLE
      THEN IF Len(tokens) > 1
             THEN << [kind |-> "Phrase", field |-> "content", words |-> tokens] >>
             ELSE [f \in 1..3 |-> [kind |-> "Term", field |-> Fields[f], words |-> <<Lower(token)>>]]
    ELSE << [kind |-> "parse", field |-> "*", words |-> <<Lower(token)>>] >>

\* query_list after the loop over the tokens
RECURSIVE QueryList(_, _, _)
QueryList(mode, tokens, i) ==
    IF i > Len(tokens) THEN <<>>
    ELSE SubQueries(mode, tokens, tokens[i]) \o QueryList(mode, tokens, i + 1)

\* Whether a record matches one entry of query_list; qp.parse(token) is the
\* Or over the three fields of the terms their analyzers make of the token
Matches(analyzer, r, sq) ==
    IF sq.kind = "FuzzyTerm" THEN FuzzyTerm(Terms(analyzer, r, sq.field), sq.words[1])
    ELSE IF sq.kind = "Term" THEN Term(Terms(analyzer, r, sq.field), sq.words[1])
    ELSE IF sq.kind = "Phrase" THEN Phrase(Terms(analyzer, r, sq.field), sq.words)
    ELSE \E f \in 1..3 : \E t \in QueryTerms(analyzer, Fields[f], sq.words[1]) :
             Term(Terms(analyzer, r, Fields[f]), t)

\* Rank of a hit of Or(query_list): the entries of query_list it matches
\* (stands for the BM25F score, which grows with the matched entries)
Rank(analyzer, r, query_list) ==
    Cardinality({ i \in 1..Len(query_list) : Matches(analyzer, r, query_list[i]) })

\* Rank for every analyzer, indexed text, title, section, mode and query
RankTable ==
    [a \in {"stem", "ngram"} |-> [t \in Texts |-> [p \in Paths |-> [s \in Sections |->
        [m \in SearchMode |-> [q \in Queries |->
            Rank(a, [content |-> t, title |-> PathStem(p), section |-> s],
                 QueryList(m, q, 1))]]]]]]

\* A mode that is no SearchMode gets as far as the search only with an
\* empty query_list, and Or([]) matches nothing
Score(analyzer, r, mode, query) ==
    IF mode \in SearchMode
      THEN RankTable[analyzer][r.content][r.path][r.section][mode][query]
      ELSE 0

----------------------------------------------------------------------------
(* The backend: WhooshBackend of indexer.py.  A backend state st is the    *)
(* record [dirs, disk, indexes]: the language directories under            *)
(* index_root, the index stored in each directory (NoIndex when the        *)
(* directory holds no index files) and the keys of self.indexes.           *)

State == [dirs |-> dirs, disk |-> disk, indexes |-> indexes]

\* _get_or_create_index that looks at the directory and not at self.indexes
create_or_open_index(st, lang, partial) ==
    [dirs    |-> st.dirs \cup {lang},
     disk    |-> IF st.disk[lang] = NoIndex
                   THEN [st.disk EXCEPT ![lang] =
                            [analyzer |-> IF partial THEN "ngram" ELSE "stem", docs |-> <<>>]]
                   ELSE st.disk,
     indexes |-> st.indexes \cup {lang}]

\* WhooshBackend._get_or_create_index
get_or_create_index(st, lang, partial) ==
    LET create == lang \notin st.indexes /\ st.disk[lang] = NoIndex
        analyzer == IF partial THEN "ngram" ELSE "stem"
    IN  [dirs    |-> st.dirs \cup {lang},
         disk    |-> IF create
                       THEN [st.disk EXCEPT ![lang] = [analyzer |-> analyzer, docs |-> <<>>]]
                       ELSE st.disk,
         indexes |-> st.indexes \cup {lang}]

\* _get_or_create_index up to its choice (lines 67-82): the directory is
\* made, and the call goes on to return the cached handle, to create the
\* index or to open it
lookup(st, lang) ==
    [st   |-> [st EXCEPT !.dirs = st.dirs \cup {lang}],
     plan |-> IF lang \in st.indexes THEN "cached"
              ELSE IF st.disk[lang] = NoIndex THEN "create" ELSE "open"]

\* self.indexes[lang] = create_in(lang_dir, schema): an empty index is written
\* over whatever index the directory holds
create_in(st, lang, partial) ==
    [st EXCEPT !.disk[lang] = [analyzer |-> IF partial THEN "ngram" ELSE "stem", docs |-> <<>>],
               !.indexes = st.indexes \cup {lang}]

\* self.indexes[lang] = open_dir(lang_dir)
open_dir(st, lang) == [st EXCEPT !.indexes = st.indexes \cup {lang}]

\* _get_or_create_index from its choice on (lines 82-86)
install_index(st, lang, partial, plan) ==
    IF plan = "create" THEN create_in(st, lang, partial)
    ELSE IF plan = "open" THEN open_dir(st, lang)
    ELSE st

\* FileIndex._read_toc: ix.schema, ix.writer() and ix.searcher() read the
\* table of contents and raise EmptyIndexError when the files are gone
read_toc(st, lang) == st.disk[lang] # NoIndex

\* The document writer.update_document is given (lines 94-102)
Record(doc_id, text, metadata, lang) ==
    [doc_id  |-> doc_id,
     path    |-> metadata.path,
     title   |-> metadata.title,
     lang    |-> lang,
     page    |-> metadata.page,
     section |-> metadata.section,
     content |-> text]

\* writer.delete_by_term(fieldname, text) on the stored ID fields
delete_by_term(docs, fieldname, text) ==
    IF fieldname = "doc_id" THEN SelectSeq(docs, LAMBDA d : d.doc_id # text)
    ELSE SelectSeq(docs, LAMBDA d : d.path # text)

\* writer.add_document in place of writer.update_document
add_document(docs, r) == docs \o <<r>>

\* writer.update_document: doc_id is the schema's unique field
update_document(docs, r) == delete_by_term(docs, "doc_id", r.doc_id) \o <<r>>

\* WhooshBackend.index_document; deleted counts the documents that
\* update_document replaced
index_document(st, doc_id, text, metadata, lang, partial) ==
    LET st1  == get_or_create_index(st, lang, partial)
        ix   == st1.disk[lang]
        docs == update_document(ix.docs, Record(doc_id, text, metadata, lang))
    IN  IF ~read_toc(st1, lang)
          THEN [st |-> st1, status |-> "EmptyIndexError", deleted |-> 0]
          ELSE [st |-> [st1 EXCEPT !.disk[lang].docs = docs], status |-> "ok",
                deleted |-> Len(ix.docs) + 1 - Len(docs)]

\* BackendManager.add_page
add_page(st, doc_id, pdf_path, text, lang, page, section) ==
    LET metadata == [path |-> pdf_path, title |-> PathStem(pdf_path),
                     page |-> page, section |-> section]
    IN  index_document(st, Uid(doc_id, pdf_path, page, section), text, metadata, lang, FALSE)

\* all_results returned as collected, without the sort
unsorted(s) == s

\* sorted(all_results, key=lambda x: -x["score"]): stable, highest first
RECURSIVE sorted(_)
sorted(s) ==
    IF s = <<>> THEN <<>>
    ELSE LET front == sorted(SubSeq(s, 1, Len(s) - 1))
             x     == s[Len(s)]
             keep  == { i \in 1..Len(front) : front[i].score >= x.score }
             k     == Cardinality(keep)
         IN  SubSeq(front, 1, k) \o <<x>> \o SubSeq(front, k + 1, Len(front))

\* s.search(final_query, limit=limit) and the loop over its hits (lines 146-152)
Hits(ix, lg, mode, query) ==
    LET hit(d) == [doc_id |-> d.doc_id, path |-> d.path, title |-> d.title,
                   page |-> d.page, section |-> d.section, lang |-> lg,
                   score |-> Score(ix.analyzer, d, mode, query)]
        all    == [i \in 1..Len(ix.docs) |-> hit(ix.docs[i])]
        ranked == sorted(SelectSeq(all, LAMBDA h : h.score > 0))
    IN  SubSeq(ranked, 1, IF Len(ranked) < SearchLimit THEN Len(ranked) ELSE SearchLimit)

\* One round of the loop over langs in WhooshBackend.search (lines 114-152)
search_lang(st, lg, query, mode) ==
    LET st1 == get_or_create_index(st, lg, mode = PARTIAL)
    IN  IF ~read_toc(st1, lg)
          THEN [st |-> st1, status |-> "EmptyIndexError", results |-> <<>>]
        ELSE IF query # <<>> /\ mode \notin SearchMode
          THEN [st |-> st1, status |-> "ValueError", results |-> <<>>]
        ELSE [st |-> st1, status |-> "ok",
              results |-> Hits(st1.disk[lg], lg, mode, query)]

\* The loop over langs of WhooshBackend.search
RECURSIVE search_langs(_, _, _, _, _)
search_langs(st, langs, query, mode, all_results) ==
    IF langs = <<>> THEN [st |-> st, status |-> "ok", results |-> sorted(all_results)]
    ELSE LET r == search_lang(st, langs[1], query, mode)
         IN  IF r.status # "ok" THEN r
             ELSE search_langs(r.st, Tail(langs), query, mode, all_results \o r.results)

\* index_root.iterdir(): the language directories in one of the orders the
\* file system may list them
IterDir(st) ==
    { o \in [1..Cardinality(st.dirs) -> st.dirs] :
        \A i, j \in 1..Cardinality(st.dirs) : i # j => o[i] # o[j] }

\* WhooshBackend.search, which BackendManager.search delegates to
search(st, query, lang, mode, listing) ==
    search_langs(st, IF lang # None THEN <<lang>> ELSE listing, query, mode, <<>>)

\* WhooshBackend.delete_document; deleted is what delete_by_term counts
delete_document(st, doc_id, lang) ==
    LET st1  == get_or_create_index(st, lang, FALSE)
        docs == delete_by_term(st1.disk[lang].docs, "doc_id", doc_id)
    IN  IF ~read_toc(st1, lang)
          THEN [st |-> st1, status |-> "EmptyIndexError", deleted |-> 0]
          ELSE [st |-> [st1 EXCEPT !.disk[lang].docs = docs], status |-> "ok",
                deleted |-> Len(st1.disk[lang].docs) - Len(docs)]

\* The loop of WhooshBackend.delete_index over the language directories;
\* deleted adds up what delete_by_term counts
RECURSIVE delete_index_langs(_, _, _, _)
delete_index_langs(st, fpath, listing, deleted) ==
    IF listing = <<>> THEN [st |-> st, status |-> "ok", deleted |-> deleted]
    ELSE LET lg   == listing[1]
             st1  == get_or_create_index(st, lg, FALSE)
             docs == delete_by_term(st1.disk[lg].docs, "path", fpath)
         IN  IF ~read_toc(st1, lg)
               THEN [st |-> st1, status |-> "EmptyIndexError", deleted |-> deleted]
               ELSE delete_index_langs([st1 EXCEPT !.disk[lg].docs = docs], fpath,
                        Tail(listing), deleted + Len(st1.disk[lg].docs) - Len(docs))

\* delete_index that stops after the first language directory
delete_index_first(st, fpath, listing) ==
    delete_index_langs(st, fpath, SubSeq(listing, 1, IF listing = <<>> THEN 0 ELSE 1), 0)

\* WhooshBackend.delete_index
delete_index(st, fpath, listing) == delete_index_langs(st, fpath, listing, 0)

\* SearchWidget.do_search up to the unpacking of what search returned:
\* results, matched_terms = self.manager.search(query, lang, mode)
do_search(st, query, lang, mode) ==
    LET r == search(st, query, lang, mode, <<>>)
    IN  IF r.status # "ok"
          THEN [status |-> r.status, results |-> <<>>, matched_terms |-> {}]
        ELSE IF Len(r.results) # 2
          THEN [status |-> "ValueError", results |-> <<>>, matched_terms |-> {}]
        ELSE [status |-> "ok", results |-> r.results[1], matched_terms |-> r.results[2]]

\* The loop of WhooshBackend.clear_index over the directories it clears.
\* glob("*") lists the entries of a language directory in the order of the
\* file system: the files of the content index (taken as one entry) and,
\* where sg has one, the suggest directory.  f.unlink() removes a file and
\* raises on the directory, which ends the call; ahead holds the languages
\* whose index files are listed ahead of the suggest directory.
RECURSIVE clear_dirs(_, _, _, _)
clear_dirs(st, sg, listing, ahead) ==
    IF listing = <<>> THEN [st |-> st, status |-> "ok"]
    ELSE LET lg  == listing[1]
             st1 == IF sg[lg].present /\ lg \notin ahead THEN st
                    ELSE [st EXCEPT !.disk[lg] = NoIndex]
         IN  IF sg[lg].present THEN [st |-> st1, status |-> "IsADirectoryError"]
             ELSE clear_dirs(st1, sg, Tail(listing), ahead)

\* WhooshBackend.clear_index: unlinks the entries of one language directory
\* or of every directory under index_root
clear_index(st, sg, lang, listing, ahead) ==
    clear_dirs(st, sg, IF lang # None THEN <<lang>> ELSE listing, ahead)

----------------------------------------------------------------------------
(* The suggest engine: SuggestManager and get_synonyms of suggest.py.  A   *)
(* suggest state ss is the record [dirs, sugg, handles]; an entry of a     *)
(* suggest index is the stored document [term, weight].                    *)

SState == [dirs |-> dirs, sugg |-> sugg, handles |-> handles]

\* SuggestManager._get_or_create, with the mkdir(parents=True) of _suggest_dir
get_or_create(ss, lang) ==
    IF lang \in ss.handles THEN ss
    ELSE [dirs    |-> ss.dirs \cup {lang},
          sugg    |-> IF ss.sugg[lang].present THEN ss.sugg
                      ELSE [ss.sugg EXCEPT ![lang] = [present |-> TRUE, docs |-> <<>>]],
          handles |-> ss.handles \cup {lang}]

\* w.update_document(term=..., weight=...) under Schema(term=TEXT, weight=ID):
\* no field of the schema is unique, so update_document finds no document
\* to delete and adds
update_suggest_document(docs, r) == add_document(docs, r)

\* The loop of add_terms over set(terms), taken in the order terms
RECURSIVE add_terms_loop(_, _, _)
add_terms_loop(docs, terms, weight) ==
    IF terms = <<>> THEN docs
    ELSE IF terms[1] = <<>> THEN add_terms_loop(docs, Tail(terms), weight)
    ELSE add_terms_loop(update_suggest_document(docs, [term |-> terms[1], weight |-> weight]),
                        Tail(terms), weight)

\* SuggestManager.add_terms
add_terms(ss, lang, terms, weight) ==
    LET ss1 == get_or_create(ss, lang)
    IN  [ss1 EXCEPT !.sugg[lang].docs = add_terms_loop(ss1.sugg[lang].docs, terms, weight)]

StartsWith(w, p) == Len(p) <= Len(w) /\ SubSeq(w, 1, Len(p)) = p

\* Prefix(field, text)
Prefix(terms, text) == \E p \in terms : StartsWith(p[1], text)

\* The postings of the term field (TEXT, default analyzer) of an entry
TermTokens(d) == StandardAnalyzer(<<d.term>>)

\* s.search(q, limit=limit): the first limit hits; Prefix and FuzzyTerm score
\* every hit alike, which leaves the hits in the order of the documents
Top(hits, limit) == SubSeq(hits, 1, IF Len(hits) < limit THEN Len(hits) ELSE limit)

\* out after the loop over the hits: r["term"] of each
StoredTerms(hits) == [i \in 1..Len(hits) |-> hits[i].term]

\* SuggestManager.prefix_suggest
prefix_suggest(ss, lang, prefix, limit) ==
    LET ss1  == get_or_create(ss, lang)
        hits == SelectSeq(ss1.sugg[lang].docs,
                          LAMBDA d : Prefix(TermTokens(d), Lower(prefix)))
    IN  [ss |-> ss1, out |-> StoredTerms(Top(hits, limit))]

\* SuggestManager.fuzzy_suggest with maxdist=1
fuzzy_suggest(ss, lang, word, limit) ==
    LET ss1  == get_or_create(ss, lang)
        hits == SelectSeq(ss1.sugg[lang].docs,
                          LAMBDA d : FuzzyTerm(TermTokens(d), Lower(word)))
    IN  [ss |-> ss1, out |-> StoredTerms(Top(hits, limit))]

\* json.load of synonyms.json where it exists, {} otherwise: the import of
\* suggest.py (lines 13-17) and SynonymManager.load_synonyms
read_synonyms(file) == IF file.exists THEN file.data ELSE NoSynonyms

\* get_synonyms: SYN.get(word.lower(), [])
get_synonyms(syn, word) ==
    IF Lower(word) \in DOMAIN syn THEN syn[Lower(word)] ELSE <<>>

\* The inner loop of combined_suggest that appends every item, seen or not
RECURSIVE suggest_items_all(_, _, _, _)
suggest_items_all(lst, out, seen, limit) ==
    IF lst = <<>> THEN [out |-> out, seen |-> seen, full |-> FALSE]
    ELSE IF Len(Append(out, lst[1])) >= limit
           THEN [out |-> Append(out, lst[1]), seen |-> seen \cup {lst[1]}, full |-> TRUE]
    ELSE suggest_items_all(Tail(lst), Append(out, lst[1]), seen \cup {lst[1]}, limit)

\* The inner loop of combined_suggest (lines 100-105); full when it returned
RECURSIVE suggest_items(_, _, _, _)
suggest_items(lst, out, seen, limit) ==
    IF lst = <<>> THEN [out |-> out, seen |-> seen, full |-> FALSE]
    ELSE IF lst[1] \in seen THEN suggest_items(Tail(lst), out, seen, limit)
    ELSE IF Len(Append(out, lst[1])) >= limit
           THEN [out |-> Append(out, lst[1]), seen |-> seen \cup {lst[1]}, full |-> TRUE]
    ELSE suggest_items(Tail(lst), Append(out, lst[1]), seen \cup {lst[1]}, limit)

\* The outer loop of combined_suggest over (prefix, fuzzy, syn)
RECURSIVE suggest_lists(_, _, _, _)
suggest_lists(lsts, out, seen, limit) ==
    IF lsts = <<>> THEN out
    ELSE LET r == suggest_items(lsts[1], out, seen, limit)
         IN  IF r.full THEN r.out ELSE suggest_lists(Tail(lsts), r.out, r.seen, limit)

\* SuggestManager.combined_suggest
combined_suggest(ss, syn, lang, query, limit) ==
    LET prefix == prefix_suggest(ss, lang, query, limit)
        fuzzy  == fuzzy_suggest(prefix.ss, lang, query, limit)
    IN  [ss  |-> fuzzy.ss,
         out |-> suggest_lists(<<prefix.out, fuzzy.out, get_synonyms(syn, query)>>,
                               <<>>, {}, limit)]

----------------------------------------------------------------------------
(* The synonym store: SynonymManager of synonym.py.  The store is the dict *)
(* self.synonyms, a function from its keys to the lists of synonyms.       *)

\* str.strip(): without the leading and trailing blanks
RECURSIVE strip(_)
strip(w) ==
    IF w = <<>> THEN w
    ELSE IF w[1] = " " THEN strip(Tail(w))
    ELSE IF w[Len(w)] = " " THEN strip(SubSeq(w, 1, Len(w) - 1))
    ELSE w

\* d[k] = v
Put(d, k, v) == [x \in DOMAIN d \cup {k} |-> IF x = k THEN v ELSE d[x]]

\* del d[k]
Del(d, k) ==
    IF DOMAIN d \ {k} = {} THEN NoSynonyms ELSE [x \in DOMAIN d \ {k} |-> d[x]]

\* list.remove(x): without the first x
RECURSIVE remove(_, _)
remove(lst, x) ==
    IF lst = <<>> THEN lst
    ELSE IF lst[1] = x THEN Tail(lst)
    ELSE <<lst[1]>> \o remove(Tail(lst), x)

\* SynonymManager.load_synonyms
load_synonyms(file) == read_synonyms(file)

\* SynonymManager.save_synonyms
save_synonyms(syns) == [exists |-> TRUE, data |-> syns]

\* SynonymManager.add_word with the text of the dialog
add_word(syns, text) ==
    LET w == Lower(strip(text))
    IN  IF strip(text) = <<>> THEN syns
        ELSE IF w \in DOMAIN syns THEN syns
        ELSE Put(syns, w, <<>>)

\* SynonymManager.remove_word on the selected word
remove_word(syns, w) == Del(syns, w)

\* SynonymManager.add_synonym to the selected word, with the text of the input
add_synonym(syns, word, text) ==
    LET syn == Lower(strip(text))
    IN  IF syn = <<>> THEN syns
        ELSE IF \E i \in 1..Len(syns[word]) : syns[word][i] = syn THEN syns
        ELSE Put(syns, word, Append(syns[word], syn))

\* SynonymManager.remove_synonym of the selected synonym of the selected word
remove_synonym(syns, word, syn) == Put(syns, word, remove(syns[word], syn))

----------------------------------------------------------------------------
(* The threads: PDFIndexWorker.run of pdf_reader.py on its QThread, and    *)
(* the calls of the GUI thread, step by step.  A worker wr is the record   *)
(* [pdfs, i, page, pc, events]: its batch, the place of the pdf it is at,  *)
(* the page it is at, its position in run, what its call of                *)
(* _get_or_create_index is about to do, the signals it has emitted and how *)
(* many of them the slots of the main window have handled.                 *)

Idle ==
    [pdfs |-> <<>>, i |-> 0, page |-> 0, pc |-> "idle", plan |-> "", events |-> <<>>,
     seen |-> 0]

\* The GUI thread in its event loop; spinning says that the waiting spinner
\* runs, which keeps the main window disabled
GuiIdle ==
    [pc |-> "idle", lang |-> None, mode |-> "", path |-> "", todo |-> <<>>,
     plan |-> "", snap |-> <<>>, results |-> <<>>, overtaken |-> FALSE,
     status |-> "ok", spinning |-> FALSE]

NoThreads ==
    /\ workers = [w \in WorkerIds |-> Idle]
    /\ writers = [l \in Langs |-> {}]
    /\ gui = GuiIdle

\* doc.page_count
PageCount(path) == IF path = "court.pdf" THEN 2 ELSE 1

\* to_markdown(doc, pages=page_number), split into words
PageText(path, page) == IF page = 1 THEN <<W_Courts, w_act>> ELSE <<w_act, w_court>>

\* A signal of the worker: progress, error or finished
Signal(sig, pdf, page, err) == [sig |-> sig, path |-> pdf.path, page |-> page, err |-> err]

\* The step of the loop over self.pdfs without the finally clause
next_pdf(wr) ==
    IF wr.i < Len(wr.pdfs)
      THEN [wr EXCEPT !.i = wr.i + 1, !.page = 0, !.pc = "open"]
      ELSE [wr EXCEPT !.page = 0, !.pc = "done"]

\* The finally clause and the step of the loop over self.pdfs
finally(wr) ==
    LET ev == Append(wr.events, Signal("finished", wr.pdfs[wr.i], 0, ""))
    IN  IF wr.i < Len(wr.pdfs)
          THEN [wr EXCEPT !.events = ev, !.i = wr.i + 1, !.page = 0, !.pc = "open"]
          ELSE [wr EXCEPT !.events = ev, !.page = 0, !.pc = "done"]

\* An exception that leaves run: the thread ends where it is
uncaught(wr, err) == [wr EXCEPT !.pc = "done"]

\* An exception raised inside the try: the except clause emits error, then
\* the finally clause runs
except(wr, err) ==
    finally([wr EXCEPT !.events = Append(wr.events, Signal("error", wr.pdfs[wr.i], wr.page, err))])

\* An except clause that takes the pages of the pdf out of the index again
rollback(st, pdf) ==
    [st EXCEPT !.disk[pdf.lang].docs = delete_by_term(st.disk[pdf.lang].docs, "path", pdf.path)]

\* What the except clause does to the index: nothing
on_error(st, pdf) == st

\* A spinner made with disable_parent_when_spinning=False: start() leaves
\* the main window enabled
startSpinnerEnabled(g) == g

\* MainWindow.startSpinner: self.waitinspinner is WaitingSpinner(self, True,
\* True), so start() disables the main window and everything in it
startSpinner(g) == [g EXCEPT !.spinning = TRUE]

\* MainWindow.stopSpinner: stop() enables the main window again
stopSpinner(g) == [g EXCEPT !.spinning = FALSE]

\* The record add_page hands to writer.update_document for the page wr is at
PageRecord(wr) ==
    LET pdf == wr.pdfs[wr.i]
    IN  Record(Uid(pdf.doc_id, pdf.path, wr.page, ""), PageText(pdf.path, wr.page),
               [path |-> pdf.path, title |-> PathStem(pdf.path), page |-> wr.page,
                section |-> ""],
               pdf.lang)

\* SegmentWriter.__init__: the write lock of the index is taken without
\* waiting (timeout=0.0), and LockError is raised when it is held
acquire(ws, lang, who) ==
    IF ws[lang] # {} THEN [ok |-> FALSE, ws |-> ws]
    ELSE [ok |-> TRUE, ws |-> [ws EXCEPT ![lang] = ws[lang] \cup {who}]]

\* writer.commit(): the write lock is released
release(ws, lang, who) == [ws EXCEPT ![lang] = ws[lang] \ {who}]

\* A searcher that reads the index as it is when it is asked
live_docs(g, st) == st.disk[g.lang].docs

\* ix.searcher(): the reader holds the segments of the table of contents it
\* read when it was opened
searcher_docs(g, st) == g.snap

----------------------------------------------------------------------------
(* The state machine: one action per call of the backend's interface.      *)
(* last records the latest call: its arguments, whether it returned or     *)
(* raised, and for the deletions the count delete_by_term returned.  What  *)
(* a search returns in a state is search(State, ...) of that state.        *)

NoCall ==
    [op |-> "init", status |-> "ok", lang |-> None, doc_id |-> "", path |-> "",
     page |-> 0, section |-> "", text |-> <<>>, mode |-> "", deleted |-> 0]

\* The records of every language index
TotalRecords(st) ==
    LET RECURSIVE Sum(_)
        Sum(S) == IF S = {} THEN 0
                  ELSE LET l == CHOOSE x \in S : TRUE
                       IN  Len(st.disk[l].docs) + Sum(S \ {l})
    IN  Sum(Langs)

HasRecord(st, lang, uid) ==
    \E i \in 1..Len(st.disk[lang].docs) : st.disk[lang].docs[i].doc_id = uid

Install(st) ==
    /\ dirs' = st.dirs
    /\ disk' = st.disk
    /\ indexes' = st.indexes

\* WhooshBackend.__init__ on an empty index root
Init ==
    /\ dirs = {}
    /\ disk = [l \in Langs |-> NoIndex]
    /\ indexes = {}
    /\ last = NoCall
    /\ sugg = [l \in Langs |-> NoSuggest]
    /\ handles = {}
    /\ SYN = NoSynonyms
    /\ synonyms = NoSynonyms
    /\ syn_file = NoSynFile
    /\ NoThreads

\* A new process: WhooshBackend.__init__ over the index root as it is
Restart ==
    /\ indexes # {}
    /\ indexes' = {}
    /\ UNCHANGED <<dirs, disk>>
    /\ last' = [NoCall EXCEPT !.op = "restart"]
    /\ UNCHANGED <<suggest_vars, synonym_vars, thread_vars>>

AddPage ==
    \E src \in Sources, text \in Texts, lang \in Langs, page \in Pages,
       section \in Sections :
        LET r == add_page(State, src.doc_id, src.path, text, lang, page, section)
        IN  /\ \/ TotalRecords(State) < MaxRecords
               \/ HasRecord(State, lang, Uid(src.doc_id, src.path, page, section))
            /\ Install(r.st)
            /\ last' = [NoCall EXCEPT !.op = "add_page", !.status = r.status,
                          !.lang = lang, !.doc_id = src.doc_id, !.path = src.path,
                          !.page = page, !.section = section, !.text = text,
                          !.deleted = r.deleted]
            /\ UNCHANGED <<suggest_vars, synonym_vars, thread_vars>>

Search ==
    \E query \in Queries, lang \in Langs \cup {None}, mode \in Modes :
      \E listing \in IF lang = None THEN IterDir(State) ELSE {<<>>} :
        LET r == search(State, query, lang, mode, listing)
        IN  /\ Install(r.st)
            /\ last' = [NoCall EXCEPT !.op = "search", !.status = r.status,
                          !.lang = lang, !.mode = mode]
            /\ UNCHANGED <<suggest_vars, synonym_vars, thread_vars>>

DeleteDocument ==
    \E doc_id \in DocIds, lang \in Langs :
        LET r == delete_document(State, doc_id, lang)
        IN  /\ Install(r.st)
            /\ last' = [NoCall EXCEPT !.op = "delete_document", !.status = r.status,
                          !.lang = lang, !.doc_id = doc_id, !.deleted = r.deleted]
            /\ UNCHANGED <<suggest_vars, synonym_vars, thread_vars>>

DeleteIndex ==
    \E fpath \in Paths, listing \in IterDir(State) :
        LET r == delete_index(State, fpath, listing)
        IN  /\ Install(r.st)
            /\ last' = [NoCall EXCEPT !.op = "delete_index", !.status = r.status,
                          !.path = fpath, !.deleted = r.deleted]
            /\ UNCHANGED <<suggest_vars, synonym_vars, thread_vars>>

ClearIndex ==
    \E lang \in Langs \cup {None} :
      \E listing \in IF lang = None THEN IterDir(State) ELSE {<<>>},
         ahead \in SUBSET { l \in Langs : sugg[l].present } :
        LET r == clear_index(State, sugg, lang, listing, ahead)
        IN  /\ Install(r.st)
            /\ last' = [NoCall EXCEPT !.op = "clear_index", !.status = r.status,
                          !.lang = lang]
            /\ UNCHANGED <<suggest_vars, synonym_vars, thread_vars>>

Next ==
    \/ AddPage
    \/ Search
    \/ DeleteDocument
    \/ DeleteIndex
    \/ ClearIndex
    \/ Restart

Spec == Init /\ [][Next]_vars

----------------------------------------------------------------------------
(* The suggest engine as a state machine *)

TotalSuggest(ss) ==
    LET RECURSIVE Sum(_)
        Sum(S) == IF S = {} THEN 0
                  ELSE LET l == CHOOSE x \in S : TRUE
                       IN  Len(ss.sugg[l].docs) + Sum(S \ {l})
    IN  Sum(Langs)

InstallSuggest(ss) ==
    /\ dirs' = ss.dirs
    /\ sugg' = ss.sugg
    /\ handles' = ss.handles

\* The import of suggest.py reads synonyms.json into SYN
SuggestInit ==
    /\ dirs = {}
    /\ disk = [l \in Langs |-> NoIndex]
    /\ indexes = {}
    /\ last = NoCall
    /\ sugg = [l \in Langs |-> NoSuggest]
    /\ handles = {}
    /\ syn_file \in SynFileStates
    /\ SYN = read_synonyms(syn_file)
    /\ synonyms = NoSynonyms
    /\ NoThreads

AddTerms ==
    \E lang \in Langs, terms \in TermLists, weight \in Weights :
        LET ss == add_terms(SState, lang, terms, weight)
        IN  /\ TotalSuggest(ss) <= MaxSuggest
            /\ InstallSuggest(ss)
            /\ last' = [NoCall EXCEPT !.op = "add_terms", !.lang = lang]
            /\ UNCHANGED <<disk, indexes, SYN, synonym_vars, thread_vars>>

CombinedSuggest ==
    \E lang \in Langs, query \in SuggestQueries, limit \in 1..MaxLimit :
        LET r == combined_suggest(SState, SYN, lang, query, limit)
        IN  /\ InstallSuggest(r.ss)
            /\ last' = [NoCall EXCEPT !.op = "combined_suggest", !.lang = lang]
            /\ UNCHANGED <<disk, indexes, SYN, synonym_vars, thread_vars>>

\* load_synonyms(path) of suggest.py
LoadSynonyms ==
    \E f \in SynFiles :
        /\ SYN' = f
        /\ last' = [NoCall EXCEPT !.op = "load_synonyms"]
        /\ UNCHANGED <<dirs, disk, indexes, sugg, handles, synonym_vars, thread_vars>>

\* A new process: an empty _handles, and SYN as the import reads it
SuggestRestart ==
    /\ handles # {}
    /\ handles' = {}
    /\ SYN' = read_synonyms(syn_file)
    /\ last' = [NoCall EXCEPT !.op = "restart"]
    /\ UNCHANGED <<dirs, disk, indexes, sugg, synonym_vars, thread_vars>>

SuggestNext ==
    \/ AddTerms
    \/ CombinedSuggest
    \/ LoadSynonyms
    \/ SuggestRestart

SuggestSpec == SuggestInit /\ [][SuggestNext]_vars

----------------------------------------------------------------------------
(* The synonym manager as a state machine: the words and synonyms of the   *)
(* lists are those of the store, which every change refreshes.             *)

\* SynonymManager.__init__ loads synonyms.json as it is found
SynonymInit ==
    /\ dirs = {}
    /\ disk = [l \in Langs |-> NoIndex]
    /\ indexes = {}
    /\ last = NoCall
    /\ sugg = [l \in Langs |-> NoSuggest]
    /\ handles = {}
    /\ syn_file \in SynFileStates
    /\ SYN = read_synonyms(syn_file)
    /\ synonyms = load_synonyms(syn_file)
    /\ NoThreads

SynonymFrame == UNCHANGED <<dirs, disk, indexes, sugg, handles, SYN, thread_vars>>

AddWord ==
    \E text \in Typed :
        /\ Cardinality(DOMAIN add_word(synonyms, text)) <= MaxWords
        /\ synonyms' = add_word(synonyms, text)
        /\ last' = [NoCall EXCEPT !.op = "add_word"]
        /\ UNCHANGED syn_file
        /\ SynonymFrame

RemoveWord ==
    \E w \in DOMAIN synonyms :
        /\ synonyms' = remove_word(synonyms, w)
        /\ last' = [NoCall EXCEPT !.op = "remove_word"]
        /\ UNCHANGED syn_file
        /\ SynonymFrame

AddSynonym ==
    \E word \in DOMAIN synonyms, text \in Typed :
        /\ Len(add_synonym(synonyms, word, text)[word]) <= MaxSynonyms
               \/ add_synonym(synonyms, word, text) = synonyms
        /\ synonyms' = add_synonym(synonyms, word, text)
        /\ last' = [NoCall EXCEPT !.op = "add_synonym"]
        /\ UNCHANGED syn_file
        /\ SynonymFrame

RemoveSynonym ==
    \E word \in DOMAIN synonyms :
      \E i \in 1..Len(synonyms[word]) :
        /\ synonyms' = remove_synonym(synonyms, word, synonyms[word][i])
        /\ last' = [NoCall EXCEPT !.op = "remove_synonym"]
        /\ UNCHANGED syn_file
        /\ SynonymFrame

SaveSynonyms ==
    /\ syn_file' = save_synonyms(synonyms)
    /\ last' = [NoCall EXCEPT !.op = "save_synonyms"]
    /\ UNCHANGED synonyms
    /\ SynonymFrame

\* A new process: SynonymManager.__init__ loads the file again
SynonymRestart ==
    /\ synonyms' = load_synonyms(syn_file)
    /\ last' = [NoCall EXCEPT !.op = "restart"]
    /\ UNCHANGED <<syn_file, dirs, disk, indexes, sugg, handles, thread_vars>>
    /\ SYN' = read_synonyms(syn_file)

SynonymNext ==
    \/ AddWord
    \/ RemoveWord
    \/ AddSynonym
    \/ RemoveSynonym
    \/ SaveSynonyms
    \/ SynonymRestart

SynonymSpec == SynonymInit /\ [][SynonymNext]_vars

----------------------------------------------------------------------------
(* The threads as a state machine.  A step of a thread is what it does     *)
(* between two accesses to the index that another thread can observe.      *)

SetWorker(w, wr) == workers' = [workers EXCEPT ![w] = wr]

ThreadFrame == UNCHANGED <<last, suggest_vars, synonym_vars>>

\* A PDFIndexWorker is started on a batch while no other worker runs
StartWorker ==
    \E w \in WorkerIds, batch \in Batches :
        /\ \A v \in WorkerIds : workers[v].pc \in {"idle", "done"}
        /\ workers[w].pc = "idle"
        /\ SetWorker(w, [Idle EXCEPT !.pdfs = batch, !.i = 1, !.pc = "open"])
        /\ UNCHANGED <<dirs, disk, indexes, writers, gui>>
        /\ ThreadFrame

\* pymupdf.open(pdf_path) and doc.page_count
WorkerOpen ==
    \E w \in WorkerIds, ok \in BOOLEAN :
        LET wr == workers[w]
        IN  /\ wr.pc = "open"
            /\ IF ok
                 THEN /\ SetWorker(w, [wr EXCEPT !.page = 1, !.pc = "extract"])
                      /\ UNCHANGED <<dirs, disk, indexes>>
                 ELSE /\ SetWorker(w, except(wr, "open"))
                      /\ Install(on_error(State, wr.pdfs[wr.i]))
            /\ UNCHANGED <<writers, gui>>
            /\ ThreadFrame

\* One step of extract_pdf_pages: the next page_number and its text, or the
\* end of the pages
WorkerExtract ==
    \E w \in WorkerIds, ok \in BOOLEAN :
        LET wr == workers[w]
        IN  /\ wr.pc = "extract"
            /\ IF wr.page > PageCount(wr.pdfs[wr.i].path)
                 THEN /\ SetWorker(w, finally(wr))
                      /\ UNCHANGED <<dirs, disk, indexes>>
               ELSE IF ok
                 THEN /\ SetWorker(w, [wr EXCEPT !.pc = "index"])
                      /\ UNCHANGED <<dirs, disk, indexes>>
                 ELSE /\ SetWorker(w, except(wr, "extract"))
                      /\ Install(on_error(State, wr.pdfs[wr.i]))
            /\ UNCHANGED <<writers, gui>>
            /\ ThreadFrame

\* add_page up to the choice of index_document's _get_or_create_index(lang)
WorkerGetIndex ==
    \E w \in WorkerIds :
        LET wr == workers[w]
            r  == lookup(State, wr.pdfs[wr.i].lang)
        IN  /\ wr.pc = "index"
            /\ Install(r.st)
            /\ SetWorker(w, [wr EXCEPT !.pc = "create", !.plan = r.plan])
            /\ UNCHANGED <<writers, gui>>
            /\ ThreadFrame

\* The rest of _get_or_create_index: create_in or open_dir and the caching
\* of the handle
WorkerCreateIndex ==
    \E w \in WorkerIds :
        LET wr == workers[w]
        IN  /\ wr.pc = "create"
            /\ Install(install_index(State, wr.pdfs[wr.i].lang, FALSE, wr.plan))
            /\ SetWorker(w, [wr EXCEPT !.pc = "writer"])
            /\ UNCHANGED <<writers, gui>>
            /\ ThreadFrame

\* ix.writer() and writer.update_document(...), which buffers the record;
\* ix.writer() reads and locks files of the directory and may raise OSError
WorkerWriter ==
    \E w \in WorkerIds, ok \in BOOLEAN :
        LET wr   == workers[w]
            lang == wr.pdfs[wr.i].lang
            lock == acquire(writers, lang, w)
        IN  /\ wr.pc = "writer"
            /\ IF ~ok
                 THEN /\ SetWorker(w, except(wr, "OSError"))
                      /\ Install(on_error(State, wr.pdfs[wr.i]))
                      /\ UNCHANGED writers
               ELSE IF ~read_toc(State, lang)
                 THEN /\ SetWorker(w, except(wr, "EmptyIndexError"))
                      /\ Install(on_error(State, wr.pdfs[wr.i]))
                      /\ UNCHANGED writers
               ELSE IF ~lock.ok
                 THEN /\ SetWorker(w, except(wr, "LockError"))
                      /\ Install(on_error(State, wr.pdfs[wr.i]))
                      /\ UNCHANGED writers
                 ELSE /\ SetWorker(w, [wr EXCEPT !.pc = "commit"])
                      /\ writers' = lock.ws
                      /\ UNCHANGED <<dirs, disk, indexes>>
            /\ UNCHANGED gui
            /\ ThreadFrame

\* writer.commit(), the return of add_page and self.progress.emit(...)
WorkerCommit ==
    \E w \in WorkerIds :
        LET wr   == workers[w]
            pdf  == wr.pdfs[wr.i]
        IN  /\ wr.pc = "commit"
            /\ disk' = [disk EXCEPT ![pdf.lang].docs = update_document(@, PageRecord(wr))]
            /\ writers' = release(writers, pdf.lang, w)
            /\ SetWorker(w, [wr EXCEPT !.events = Append(@, Signal("progress", pdf, wr.page, "")),
                                        !.page = wr.page + 1, !.pc = "extract"])
            /\ UNCHANGED <<dirs, indexes, gui>>
            /\ ThreadFrame

\* SearchWidget.do_search up to the choice of _get_or_create_index in
\* WhooshBackend.search
SearchGetIndex ==
    \E lang \in Langs, mode \in {PARTIAL, WHOLE} :
        LET r == lookup(State, lang)
        IN  /\ gui.pc = "idle" /\ ~gui.spinning
            /\ Install(r.st)
            /\ gui' = [GuiIdle EXCEPT !.pc = "open", !.lang = lang, !.mode = mode,
                                       !.plan = r.plan]
            /\ UNCHANGED <<workers, writers>>
            /\ ThreadFrame

\* The rest of _get_or_create_index, the query and ix.searcher()
SearchOpen ==
    LET st1 == install_index(State, gui.lang, gui.mode = PARTIAL, gui.plan)
    IN  /\ gui.pc = "open"
        /\ Install(st1)
        /\ gui' = IF ~read_toc(st1, gui.lang)
                     THEN [gui EXCEPT !.pc = "idle", !.status = "EmptyIndexError"]
                     ELSE [gui EXCEPT !.pc = "searcher", !.snap = st1.disk[gui.lang].docs]
        /\ UNCHANGED <<workers, writers>>
        /\ ThreadFrame

\* s.search(final_query, limit=limit) and the return of the sorted hits
SearchRead ==
    /\ gui.pc = "searcher"
    /\ gui' = [gui EXCEPT
                 !.pc = "idle",
                 !.results = sorted(Hits([analyzer |-> disk[gui.lang].analyzer,
                                          docs |-> searcher_docs(gui, State)],
                                         gui.lang, gui.mode, GuiQuery)),
                 !.overtaken = (disk[gui.lang].docs # gui.snap)]
    /\ UNCHANGED <<dirs, disk, indexes, workers, writers>>
    /\ ThreadFrame

\* MainWindow.remove_pdf: delete_index lists the language directories
DeleteBegin ==
    \E fpath \in Paths, listing \in IterDir(State) :
        /\ gui.pc = "idle" /\ ~gui.spinning
        /\ gui' = IF listing = <<>> THEN [GuiIdle EXCEPT !.path = fpath]
                   ELSE [GuiIdle EXCEPT !.pc = "index", !.path = fpath, !.todo = listing]
        /\ UNCHANGED <<dirs, disk, indexes, workers, writers>>
        /\ ThreadFrame

\* delete_index in one language directory, up to the choice of
\* _get_or_create_index
DeleteGetIndex ==
    LET r == lookup(State, gui.todo[1])
    IN  /\ gui.pc = "index"
        /\ Install(r.st)
        /\ gui' = [gui EXCEPT !.pc = "writer", !.plan = r.plan]
        /\ UNCHANGED <<workers, writers>>
        /\ ThreadFrame

\* The rest of _get_or_create_index and ix.writer()
DeleteWriter ==
    LET lang == gui.todo[1]
        st1  == install_index(State, lang, FALSE, gui.plan)
        lock == acquire(writers, lang, "gui")
    IN  /\ gui.pc = "writer"
        /\ Install(st1)
        /\ IF ~read_toc(st1, lang)
             THEN /\ gui' = [gui EXCEPT !.pc = "idle", !.status = "EmptyIndexError"]
                  /\ UNCHANGED writers
           ELSE IF ~lock.ok
             THEN /\ gui' = [gui EXCEPT !.pc = "idle", !.status = "LockError"]
                  /\ UNCHANGED writers
             ELSE /\ gui' = [gui EXCEPT !.pc = "commit"]
                  /\ writers' = lock.ws
        /\ UNCHANGED workers
        /\ ThreadFrame

\* writer.delete_by_term("path", fpath) and writer.commit(), then the next
\* language directory
DeleteCommit ==
    LET lang == gui.todo[1]
    IN  /\ gui.pc = "commit"
        /\ disk' = [disk EXCEPT ![lang].docs = delete_by_term(@, "path", gui.path)]
        /\ writers' = release(writers, lang, "gui")
        /\ gui' = [gui EXCEPT !.todo = Tail(gui.todo),
                               !.pc = IF Tail(gui.todo) = <<>> THEN "idle" ELSE "index"]
        /\ UNCHANGED <<dirs, indexes, workers>>
        /\ ThreadFrame

\* The workers alone
WorkerNext ==
    \/ StartWorker
    \/ WorkerOpen
    \/ WorkerExtract
    \/ WorkerGetIndex
    \/ WorkerCreateIndex
    \/ WorkerWriter
    \/ WorkerCommit

WorkerSpec == Init /\ [][WorkerNext]_vars

\* A step of a running worker
WorkerStep ==
    \/ WorkerOpen
    \/ WorkerExtract
    \/ WorkerGetIndex
    \/ WorkerCreateIndex
    \/ WorkerWriter
    \/ WorkerCommit

\* The workers on threads that are scheduled again and again: a started
\* QThread runs until run returns, and every call in run returns or raises
WorkerLiveSpec == Init /\ [][WorkerNext]_vars /\ WF_vars(WorkerStep)

\* The workers next to the searches of the GUI thread
ReaderNext ==
    \/ StartWorker
    \/ WorkerOpen
    \/ WorkerExtract
    \/ WorkerGetIndex
    \/ WorkerCreateIndex
    \/ WorkerWriter
    \/ WorkerCommit
    \/ SearchGetIndex
    \/ SearchOpen
    \/ SearchRead

ReaderSpec == Init /\ [][ReaderNext]_vars

\* MainWindow.add_pdf, the slot of sig_source_added: the spinner is started
\* and a new worker is started on the one source
AddPdf ==
    \E w \in WorkerIds, source \in { s_court, s_a } :
        /\ gui.pc = "idle" /\ ~gui.spinning
        /\ workers[w].pc = "idle"
        /\ gui' = startSpinner(gui)
        /\ SetWorker(w, [Idle EXCEPT !.pdfs = <<source>>, !.i = 1, !.pc = "open"])
        /\ UNCHANGED <<dirs, disk, indexes, writers>>
        /\ ThreadFrame

\* The GUI thread handles the next signal of a worker: on_progress shows a
\* message, on_finished stops the spinner, error is connected to no slot
OnSignal ==
    \E w \in WorkerIds :
        LET wr == workers[w]
        IN  /\ gui.pc = "idle"
            /\ wr.seen < Len(wr.events)
            /\ SetWorker(w, [wr EXCEPT !.seen = wr.seen + 1])
            /\ gui' = IF wr.events[wr.seen + 1].sig = "finished" THEN stopSpinner(gui) ELSE gui
            /\ UNCHANGED <<dirs, disk, indexes, writers>>
            /\ ThreadFrame

\* The main window: the workers add_pdf starts next to the searches of
\* do_search and the deletions of remove_pdf
AppNext ==
    \/ AddPdf
    \/ WorkerOpen
    \/ WorkerExtract
    \/ WorkerGetIndex
    \/ WorkerCreateIndex
    \/ WorkerWriter
    \/ WorkerCommit
    \/ OnSignal
    \/ SearchGetIndex
    \/ SearchOpen
    \/ SearchRead
    \/ DeleteBegin
    \/ DeleteGetIndex
    \/ DeleteWriter
    \/ DeleteCommit

AppSpec == Init /\ [][AppNext]_vars

\* The content index and the suggest index of a language side by side
ClearNext ==
    \/ AddPage
    \/ CombinedSuggest
    \/ ClearIndex
    \/ Restart

ClearSpec == Init /\ [][ClearNext]_vars

----------------------------------------------------------------------------
(* Properties *)

Docs(lang) == disk[lang].docs

\* The records of a language index whose stored doc_id is uid
WithId(lang, uid) == { i \in 1..Len(Docs(lang)) : Docs(lang)[i].doc_id = uid }

\* The listings of the index root a search over lang may iterate
Listings(lang) == IF lang = None THEN IterDir(State) ELSE {<<>>}

\* The stored doc_id values of the hits a call returned
HitIds(r) == { r.results[i].doc_id : i \in 1..Len(r.results) }

\* The entry ids add_page builds for the pages of one document
EntryIds(doc_id) ==
    { Uid(doc_id, p, pg, sec) : p \in Paths, pg \in Pages, sec \in Sections }

\* C1: no language index ever holds two records with the same entry id,
\* and when add_page has returned, the index of its language holds exactly
\* one record with the entry id of the call, carrying the text of the call.
UpsertCountInvariant ==
    /\ \A lang \in Langs : \A i, j \in 1..Len(Docs(lang)) :
           Docs(lang)[i].doc_id = Docs(lang)[j].doc_id => i = j
    /\ (last.op = "add_page" /\ last.status = "ok") =>
           LET uid == Uid(last.doc_id, last.path, last.page, last.section)
           IN  /\ Cardinality(WithId(last.lang, uid)) = 1
               /\ \A i \in WithId(last.lang, uid) : Docs(last.lang)[i].content = last.text

\* add_page has re-ingested a key the index already held, next to another record
UpsertWitness ==
    /\ last.op = "add_page" /\ last.status = "ok" /\ last.deleted = 1
    /\ Len(Docs(last.lang)) = 2
    /\ Docs(last.lang)[2].content = last.text

\* C2: when delete_index(P) has returned, no search in any mode, over one
\* language or over all of them, returns a record whose stored path is P.
DeleteByPathExhaustive ==
    (last.op = "delete_index" /\ last.status = "ok") =>
        \A query \in Queries, mode \in SearchMode, lang \in Langs \cup {None} :
            \A listing \in Listings(lang) :
                LET r == search(State, query, lang, mode, listing)
                IN  \A i \in 1..Len(r.results) : r.results[i].path # last.path

\* delete_index has removed the pages of a path from both language indexes
DeleteByPathWitness ==
    /\ last.op = "delete_index" /\ last.status = "ok" /\ last.deleted = 2
    /\ dirs = Langs
    /\ \A lang \in Langs : Docs(lang) = <<>>

\* C3: when delete_document(doc_id, language) has returned, the index of
\* that language holds no record whose entry id add_page built from doc_id.
DeleteDocumentRemovesPages ==
    (last.op = "delete_document" /\ last.status = "ok") =>
        \A i \in 1..Len(Docs(last.lang)) :
            Docs(last.lang)[i].doc_id \notin EntryIds(last.doc_id)

\* C4: a PARTIAL search that finds nothing hands its caller what the same
\* query finds in FUZZY mode: whenever search returns no result in PARTIAL
\* mode, the FUZZY search it falls back to finds nothing either.
FallbackCascade ==
    \A query \in Queries, lang \in Langs \cup {None} : \A listing \in Listings(lang) :
        LET p == search(State, query, lang, PARTIAL, listing)
            f == search(p.st, query, lang, FUZZY, listing)
        IN  (p.status = "ok" /\ p.results = <<>> /\ f.status = "ok") => f.results = <<>>

\* sub is a substring of w of 4 or more characters that is neither w nor a
\* prefix of w
InnerSubstring(sub, w) ==
    /\ Len(sub) >= 4
    /\ \E s \in 2..(Len(w) - Len(sub) + 1) : SubSeq(w, s, s + Len(sub) - 1) = sub

\* C5: a PARTIAL search for a substring of 4 or more characters of a word
\* of an ingested page returns that page.
PartialSubstringSearch ==
    \A lang \in Langs, query \in Queries : \A i \in 1..Len(Docs(lang)) :
        ( /\ Len(query) = 1
          /\ \E k \in 1..Len(Docs(lang)[i].content) :
                 InnerSubstring(query[1], Docs(lang)[i].content[k]) )
        => Docs(lang)[i].doc_id \in HitIds(search(State, query, lang, PARTIAL, <<>>))

Reverse(q) == [i \in 1..Len(q) |-> q[Len(q) + 1 - i]]

\* The words of phrase stand next to each other, in order, in text
OccursIn(phrase, text) ==
    \E k \in 0..(Len(text) - Len(phrase)) : \A i \in 1..Len(phrase) : text[k + i] = phrase[i]

\* C6: a WHOLE search for a phrase of several tokens that stands verbatim in
\* an ingested page returns that page, and a WHOLE search for the tokens in
\* reversed order does not.
WholePhraseSearch ==
    \A lang \in Langs, query \in Queries : \A i \in 1..Len(Docs(lang)) :
        ( /\ Len(query) > 1
          /\ OccursIn(query, Docs(lang)[i].content)
          /\ Reverse(query) \in Queries
          /\ ~OccursIn(Reverse(query), Docs(lang)[i].content) )
        => /\ Docs(lang)[i].doc_id \in HitIds(search(State, query, lang, WHOLE, <<>>))
           /\ Docs(lang)[i].doc_id \notin
                  HitIds(search(State, Reverse(query), lang, WHOLE, <<>>))

OneSubstitution(a, b) ==
    /\ Len(a) = Len(b)
    /\ Cardinality({ i \in 1..Len(a) : a[i] # b[i] }) = 1

\* C7: a FUZZY search for a token one substitution away from a word of an
\* ingested page returns that page, and a token two or more edits away from
\* every word of the page does not return it.
FuzzyBoundary ==
    \A lang \in Langs, query \in Queries : \A i \in 1..Len(Docs(lang)) :
        LET words == { Lower(Docs(lang)[i].content[k]) :
                         k \in 1..Len(Docs(lang)[i].content) }
            hit   == Docs(lang)[i].doc_id \in HitIds(search(State, query, lang, FUZZY, <<>>))
        IN  Len(query) = 1 =>
              /\ (\E w \in words : OneSubstitution(Lower(query[1]), w)) => hit
              /\ (\A w \in words : ~Within1(Lower(query[1]), w)) => ~hit

\* C8: what search returns unpacks into the ranked result list and the set
\* of matched terms, which is empty when the list is: do_search gets both
\* from every search that raises no error.
SearchReturnsPair ==
    \A query \in Queries, lang \in Langs, mode \in {PARTIAL, WHOLE} :
        LET r == search(State, query, lang, mode, <<>>)
            d == do_search(State, query, lang, mode)
        IN  r.status = "ok" =>
              /\ d.status = "ok"
              /\ d.results = r.results
              /\ r.results = <<>> => d.matched_terms = {}

\* C9: a search whose mode is none of PARTIAL, WHOLE, FUZZY raises the
\* invalid-argument error, for every query and every language filter.
InvalidModeRejected ==
    \A query \in Queries, lang \in Langs \cup {None}, mode \in Modes \ SearchMode :
        \A listing \in Listings(lang) :
            search(State, query, lang, mode, listing).status = "ValueError"

\* C10: a search in a valid mode over a language that has no index returns
\* the empty list and raises nothing.
MissingLanguageIsEmpty ==
    \A lang \in Langs : disk[lang] = NoIndex =>
        \A query \in Queries, mode \in SearchMode :
            LET r == search(State, query, lang, mode, <<>>)
            IN  r.status = "ok" /\ r.results = <<>>

\* What the loop over langs collects into all_results: the hits of each
\* language of the listing (per[lg]), in the order of the listing
RECURSIVE Collected(_, _)
Collected(listing, per) ==
    IF listing = <<>> THEN <<>>
    ELSE per[listing[1]] \o Collected(Tail(listing), per)

\* The place of hit h in the sequence s
Pos(s, h) == CHOOSE i \in 1..Len(s) : s[i] = h

\* C11: the list a search over all languages returns holds the collected
\* hits by non-increasing score, and hits of equal score stand in the order
\* in which they were collected.
MergeIsStableSort ==
    \A query \in Queries, mode \in SearchMode :
      LET per == [lg \in dirs |-> search(State, query, lg, mode, <<>>).results]
      IN  \A listing \in IterDir(State) :
            LET r == search(State, query, None, mode, listing)
                c == Collected(listing, per)
                n == Len(r.results)
            IN  r.status = "ok" =>
                  /\ n = Len(c)
                  /\ \A i \in 1..n : \E k \in 1..n : c[k] = r.results[i]
                  /\ \A i, j \in 1..n : i < j =>
                         /\ r.results[i].score >= r.results[j].score
                         /\ r.results[i].score = r.results[j].score =>
                                Pos(c, r.results[i]) < Pos(c, r.results[j])

\* A search over both languages whose best hit was collected last, and one
\* whose two hits tie
MergeWitness ==
    /\ \E query \in Queries, mode \in SearchMode : \E listing \in IterDir(State) :
          LET r == search(State, query, None, mode, listing)
          IN  /\ r.status = "ok" /\ Len(r.results) = 2 /\ Len(listing) = 2
              /\ r.results[1].lang = listing[2]
              /\ r.results[1].score > r.results[2].score
    /\ \E query \in Queries, mode \in SearchMode : \E listing \in IterDir(State) :
          LET r == search(State, query, None, mode, listing)
          IN  /\ r.status = "ok" /\ Len(r.results) = 2 /\ Len(listing) = 2
              /\ r.results[1].lang = listing[1] /\ r.results[2].lang = listing[2]
              /\ r.results[1].score = r.results[2].score

\* The languages a clear_index call is to clear
Cleared(lang) == IF lang = None THEN Langs ELSE {lang}

\* C12: when clear_index has been called for a language, or for all of
\* them, nothing is left under the language directory, the suggest
\* directory included, and no search on the language returns a record.
ClearRemovesAll ==
    last.op = "clear_index" =>
        \A lang \in Cleared(last.lang) :
            /\ disk[lang] = NoIndex
            /\ ~sugg[lang].present
            /\ \A query \in Queries, mode \in SearchMode :
                   search(State, query, lang, mode, <<>>).results = <<>>

\* C18: no suggest index holds two entries with the same term, and none
\* holds an entry with the empty term.
SuggestDeduplicated ==
    \A lang \in Langs :
        /\ \A i, j \in 1..Len(sugg[lang].docs) :
               sugg[lang].docs[i].term = sugg[lang].docs[j].term => i = j
        /\ \A i \in 1..Len(sugg[lang].docs) : sugg[lang].docs[i].term # <<>>

\* s without the later occurrences of its elements
RECURSIVE Dedup(_)
Dedup(s) ==
    IF s = <<>> THEN <<>>
    ELSE LET front == Dedup(SubSeq(s, 1, Len(s) - 1))
         IN  IF \E i \in 1..Len(front) : front[i] = s[Len(s)] THEN front
             ELSE Append(front, s[Len(s)])

Range(s) == { s[i] : i \in 1..Len(s) }

\* C19: for every limit >= 1, combined_suggest returns the first limit
\* elements of prefix hits ++ fuzzy hits ++ synonym hits with the later
\* duplicates removed: no duplicate, at most limit elements, every prefix
\* hit ahead of every fuzzy-only hit, and these ahead of every synonym-only hit.
CombinedSuggestOrder ==
    \A lang \in Langs, query \in SuggestQueries, limit \in 1..MaxLimit :
        LET prefix == prefix_suggest(SState, lang, query, limit).out
            fuzzy  == fuzzy_suggest(SState, lang, query, limit).out
            syn    == get_synonyms(SYN, query)
            all    == Dedup(prefix \o fuzzy \o syn)
            out    == combined_suggest(SState, SYN, lang, query, limit).out
            Class(x) == IF x \in Range(prefix) THEN 1
                        ELSE IF x \in Range(fuzzy) THEN 2 ELSE 3
        IN  /\ out = SubSeq(all, 1, IF Len(all) < limit THEN Len(all) ELSE limit)
            /\ Len(out) <= limit
            /\ \A i, j \in 1..Len(out) : i < j =>
                   /\ out[i] # out[j]
                   /\ Class(out[i]) <= Class(out[j])

\* A completion with a prefix hit, a fuzzy-only hit and a synonym-only hit,
\* where the fuzzy hits and the synonyms repeat earlier items
CombinedSuggestWitness ==
    /\ last.op = "combined_suggest"
    /\ \E lang \in Langs, query \in SuggestQueries :
          LET prefix == prefix_suggest(SState, lang, query, MaxLimit).out
              fuzzy  == fuzzy_suggest(SState, lang, query, MaxLimit).out
              syn    == get_synonyms(SYN, query)
              out    == combined_suggest(SState, SYN, lang, query, MaxLimit).out
          IN  /\ Len(out) = 3
              /\ out[1] \in Range(prefix)
              /\ out[2] \in Range(fuzzy) \ Range(prefix)
              /\ out[3] \in Range(syn) \ (Range(prefix) \cup Range(fuzzy))
              /\ Len(prefix \o fuzzy \o syn) > 3
          /\ Len(combined_suggest(SState, SYN, lang, query, 1).out) = 1

\* C13: the first _get_or_create_index call for a language in a process
\* creates the index when the directory holds none, opens it otherwise, and
\* caches the handle; a call for a cached language, whatever its partial
\* flag, returns the cached handle and neither creates nor opens an index.
RegistryCachesHandle ==
    \A lang \in Langs, partial \in BOOLEAN :
        LET st1 == get_or_create_index(State, lang, partial)
            st2 == get_or_create_index(st1, lang, ~partial)
        IN  /\ lang \in st1.indexes
            /\ (lang \notin indexes /\ disk[lang] = NoIndex) =>
                   st1.disk = [disk EXCEPT ![lang] =
                      [analyzer |-> IF partial THEN "ngram" ELSE "stem", docs |-> <<>>]]
            /\ (lang \notin indexes /\ disk[lang] # NoIndex) => st1.disk = disk
            /\ lang \in indexes => (st1.disk = disk /\ st1.indexes = indexes)
            /\ st2.disk = st1.disk /\ st2.indexes = st1.indexes

\* A search has gone through the cached handle of a language whose files
\* clear_index had removed, while the other language was opened from disk
RegistryWitness ==
    /\ last.op = "search" /\ last.status = "EmptyIndexError"
    /\ last.lang \in indexes /\ disk[last.lang] = NoIndex
    /\ \E lang \in indexes : disk[lang] # NoIndex /\ Len(Docs(lang)) > 0

\* w holds no uppercase letter
IsLower(w) == Lower(w) = w

\* C20: every word and every synonym of the store is lowercase, and no
\* group of synonyms holds a synonym twice.
SynonymNormalForm ==
    \A w \in DOMAIN synonyms :
        /\ IsLower(w)
        /\ \A i \in 1..Len(synonyms[w]) : IsLower(synonyms[w][i])
        /\ \A i, j \in 1..Len(synonyms[w]) : synonyms[w][i] = synonyms[w][j] => i = j

\* The GUI thread's search has returned its hits
SearchReturned == gui.pc = "idle" /\ gui.mode \in SearchMode /\ gui.status = "ok"

Errors(w) == { workers[w].events[i].err : i \in 1..Len(workers[w].events) }

\* C15: at most one writer is open on a language index at any time, and no
\* ingestion started by add_pdf and no deletion run by remove_pdf meets an
\* open writer: none runs next to another, none fails on the write lock.
SingleWriterPerLanguage ==
    /\ \A lang \in Langs : Cardinality(writers[lang]) <= 1
    /\ \A w \in WorkerIds : "LockError" \notin Errors(w)
    /\ gui.status # "LockError"
    /\ \A w1, w2 \in WorkerIds :
           (w1 # w2 /\ workers[w1].pc \notin {"idle", "done"})
               => workers[w2].pc \in {"idle", "done"}
    /\ gui.pc # "idle" => \A w \in WorkerIds : workers[w].pc \in {"idle", "done"}

\* Two ingestions into one language have both committed their pages, the
\* second one asked for after the first, and a deletion has run
SingleWriterWitness ==
    /\ \A w \in WorkerIds :
           /\ workers[w].pc = "done"
           /\ workers[w].pdfs[1].lang = "en"
           /\ \E i \in 1..Len(workers[w].events) : workers[w].events[i].sig = "progress"
    /\ gui.path # "" /\ gui.pc = "idle" /\ gui.status = "ok"

\* C16: when run has ended, every pdf of the batch has its finished signal,
\* a pdf whose pages were not all indexed has its error signal before it,
\* and the signals of a pdf come after those of the pdfs before it: a
\* failure is reported and the later pdfs are still processed.
BatchFailureIsolation ==
    \A w \in WorkerIds :
        LET wr == workers[w]
            ev == wr.events
            At(sig, path) == { i \in 1..Len(ev) : ev[i].sig = sig /\ ev[i].path = path }
        IN  wr.pc = "done" =>
              \A j \in 1..Len(wr.pdfs) :
                  LET path == wr.pdfs[j].path
                  IN  /\ Cardinality(At("finished", path)) = 1
                      /\ \/ Cardinality(At("progress", path)) = PageCount(path)
                         \/ \E e \in At("error", path) : \A f \in At("finished", path) : e < f
                      /\ \A k \in 1..Len(wr.pdfs) : k < j =>
                             \A f \in At("finished", wr.pdfs[k].path) :
                                 \A i \in 1..Len(ev) : ev[i].path = path => f < i

\* A run has ended whose first pdf failed and whose second pdf was indexed
\* page by page
BatchFailureWitness ==
    \E w \in WorkerIds :
        LET wr == workers[w]
        IN  /\ wr.pc = "done" /\ Len(wr.pdfs) = 2
            /\ wr.events[1].sig = "error" /\ wr.events[1].path = wr.pdfs[1].path
            /\ \E i \in 1..Len(wr.events) :
                   /\ wr.events[i].sig = "progress"
                   /\ wr.events[i].path = wr.pdfs[2].path
                   /\ wr.events[i].page = PageCount(wr.pdfs[2].path)

\* C17: when a page k of a pdf has failed, the pages 1..k-1 the worker
\* committed before are in the index and a search for their words returns
\* them: nothing is rolled back.
CommittedPagesRemain ==
    \A w \in WorkerIds : \A i \in 1..Len(workers[w].events) :
        LET e   == workers[w].events[i]
            pdf == CHOOSE s \in { workers[w].pdfs[j] : j \in 1..Len(workers[w].pdfs) } :
                       s.path = e.path
        IN  e.sig = "error" =>
              \A page \in 1..(e.page - 1) :
                  /\ \E d \in 1..Len(Docs(pdf.lang)) :
                         Docs(pdf.lang)[d].doc_id = Uid(pdf.doc_id, pdf.path, page, "")
                  /\ Uid(pdf.doc_id, pdf.path, page, "") \in
                         HitIds(search(State, GuiQuery, pdf.lang, PARTIAL, <<>>))

\* The indexing of page 2 of a pdf has failed in ix.writer() after its page 1
\* was committed
CommittedPagesWitness ==
    \E w \in WorkerIds : \E i \in 1..Len(workers[w].events) :
        LET e == workers[w].events[i]
        IN  /\ e.sig = "error" /\ e.err = "OSError" /\ e.page = 2
            /\ i > 1
            /\ workers[w].events[i - 1].sig = "progress"
            /\ workers[w].events[i - 1].path = e.path
            /\ workers[w].events[i - 1].page = 1

\* C21: a search that raises the invalid-mode error leaves the language
\* directories, every language index and the keys of self.indexes as they
\* were before the call.
InvalidModeNoPartialWork ==
    \A query \in Queries, lang \in Langs \cup {None}, mode \in Modes \ SearchMode :
        \A listing \in Listings(lang) :
            LET r == search(State, query, lang, mode, listing)
            IN  r.status = "ValueError" => r.st = State

\* query.lower(), token by token
LowerQuery(q) == [i \in 1..Len(q) |-> Lower(q[i])]

\* C22: in every mode, a search for a query returns the same records as a
\* search for the lowercased query, in every state of the indexes.
LowercaseEquivalence ==
    \A query \in Queries, lang \in Langs, mode \in SearchMode :
        LowerQuery(query) \in Queries =>
            LET r == search(State, query, lang, mode, <<>>)
                l == search(State, LowerQuery(query), lang, mode, <<>>)
            IN  r.status = l.status /\ HitIds(r) = HitIds(l)

\* Page entries given to add_page, among them a path and sections that hold
\* the separator of the entry id
PageEntries ==
    { [doc_id |-> "A1", path |-> "court.pdf", page |-> 1, section |-> ""],
      [doc_id |-> "A1", path |-> "court.pdf", page |-> 2, section |-> ""],
      [doc_id |-> "B2", path |-> "court.pdf", page |-> 1, section |-> ""],
      [doc_id |-> "A1", path |-> "court.pdf", page |-> 1, section |-> "2#s"],
      [doc_id |-> "A1", path |-> "court.pdf#1", page |-> 2, section |-> "s"] }

\* C23: two page entries that differ in doc_id, path, page or section get
\* different entry ids, and adding the second to a language leaves the
\* record of the first in its index.
EntryIdInjective ==
    \A lang \in Langs, e1, e2 \in PageEntries, text \in Texts :
        LET r1 == add_page(State, e1.doc_id, e1.path, text, lang, e1.page, e1.section)
            r2 == add_page(r1.st, e2.doc_id, e2.path, text, lang, e2.page, e2.section)
            d  == r2.st.disk[lang].docs
        IN  (e1 # e2 /\ r2.status = "ok") =>
              /\ Uid(e1.doc_id, e1.path, e1.page, e1.section)
                     # Uid(e2.doc_id, e2.path, e2.page, e2.section)
              /\ \E i \in 1..Len(d) :
                     /\ d[i].path = e1.path
                     /\ d[i].page = e1.page
                     /\ d[i].section = e1.section

\* C24: when the synonym manager has saved its store, get_synonyms gives
\* for every word the synonyms the store holds for it, and the empty list
\* for a word the store does not hold, in the same process.
SuggestReadsSavedStore ==
    last.op = "save_synonyms" =>
        \A w \in {w_court, w_bench, w_coart} :
            get_synonyms(SYN, w) = IF w \in DOMAIN synonyms THEN synonyms[w] ELSE <<>>

\* The languages whose index a thread is about to create: it has found the
\* language uncached and its directory without an index, and has not yet
\* called create_in
Creating ==
    { workers[w].pdfs[workers[w].i].lang :
        w \in { v \in WorkerIds : workers[v].pc = "create" /\ workers[v].plan = "create" } }
    \cup (IF gui.pc = "open" /\ gui.plan = "create" THEN {gui.lang} ELSE {})
    \cup (IF gui.pc = "writer" /\ gui.plan = "create" THEN {gui.todo[1]} ELSE {})

\* C25: whenever a thread is about to create the index of a language, the
\* directory of that language holds no index and no handle for it is
\* cached: no index is created a second time, and no creation writes an
\* empty index over committed records.
RegistryRaceFree ==
    \A lang \in Creating : disk[lang] = NoIndex /\ lang \notin indexes

\* The GUI thread has created the index of a language in a search, and a
\* worker that found the handle cached has committed a page to it
RegistryRaceWitness ==
    /\ gui.pc = "idle" /\ gui.plan = "create" /\ gui.mode \in SearchMode
    /\ \E w \in WorkerIds :
           /\ workers[w].plan = "cached"
           /\ workers[w].pdfs[1].lang = gui.lang
           /\ \E i \in 1..Len(workers[w].events) :
                  /\ workers[w].events[i].sig = "progress"
                  /\ workers[w].events[i].page = 1
    /\ Len(Docs(gui.lang)) > 0

\* The two steps of _get_or_create_index together are the whole call
RegistrySteps ==
    \A lang \in Langs, partial \in BOOLEAN :
        LET r == lookup(State, lang)
        IN  install_index(r.st, lang, partial, r.plan) = get_or_create_index(State, lang, partial)

\* The signals of one worker are in the order of run
EventsInOrder(w) ==
    LET wr == workers[w]
        ev == wr.events
        At(sig, j) == { p \in 1..Len(ev) : ev[p].sig = sig /\ ev[p].path = wr.pdfs[j].path }
        Of(j) == At("progress", j) \cup At("error", j) \cup At("finished", j)
        Ended(j) == j < wr.i \/ wr.pc = "done"
    IN  \A j \in 1..Len(wr.pdfs) :
            /\ Cardinality(At("finished", j)) = IF Ended(j) THEN 1 ELSE 0
            /\ \A f \in At("finished", j) :
                   /\ \A p \in Of(j) : p <= f
                   /\ \A k \in 1..Len(wr.pdfs) : k > j => \A p \in Of(k) : f < p
            /\ Cardinality(At("error", j)) <= 1
            /\ \A e \in At("error", j) : \A p \in At("progress", j) : p < e
            /\ \A p \in At("progress", j) :
                   /\ ev[p].page = Cardinality({ q \in At("progress", j) : q <= p })
                   /\ HasRecord(State, wr.pdfs[j].lang,
                                Uid(wr.pdfs[j].doc_id, wr.pdfs[j].path, ev[p].page, ""))
                   /\ (j = wr.i /\ wr.pc \in {"index", "create", "writer", "commit"})
                          => ev[p].page < wr.page

\* C26: for every pdf of a batch, finished is emitted once, after every
\* progress and error signal of that pdf and before any signal of the next
\* pdf, whether the pdf failed or not; progress for page n is emitted only
\* when add_page for page n has returned, the pages counting 1, 2, ...; and
\* a run that was started ends.
WorkerEventOrdering ==
    /\ [](\A w \in WorkerIds : EventsInOrder(w))
    /\ \A w \in WorkerIds : (workers[w].pc # "idle") ~> (workers[w].pc = "done")

\* A run has ended in which the first pdf was indexed and the second pdf
\* failed at its page 2: progress and finished of the first, then progress,
\* error and finished of the second
WorkerEventWitness ==
    \E w \in WorkerIds :
        LET wr == workers[w]
        IN  /\ wr.pc = "done" /\ Len(wr.pdfs) = 2 /\ Len(wr.events) = 5
            /\ [p \in 1..5 |-> wr.events[p].sig]
                   = <<"progress", "finished", "progress", "error", "finished">>
            /\ wr.events[4].page = 2

\* C27: for a language that has no index, the records a search returns
\* after an add_page are the same whether the add_page came first or a
\* search in some mode or a deletion touched the language before it.
FirstToucherIndependence ==
    \A lang \in Langs : (disk[lang] = NoIndex /\ lang \notin indexes) =>
        \A src \in Sources, text \in Texts, first \in SearchMode \cup {"delete"} :
            LET touched == IF first = "delete"
                             THEN delete_document(State, src.doc_id, lang).st
                             ELSE search(State, <<w_ourt>>, lang, first, <<>>).st
                a == add_page(State, src.doc_id, src.path, text, lang, 1, "").st
                b == add_page(touched, src.doc_id, src.path, text, lang, 1, "").st
            IN  \A query \in Queries, mode \in SearchMode :
                    HitIds(search(a, query, lang, mode, <<>>))
                        = HitIds(search(b, query, lang, mode, <<>>))

\* C28: in a process that holds the handle of a language, clear_index of
\* the language followed by add_page of one page succeeds, the index of the
\* language then holds that one record, and a search for a word of the page
\* returns it.
UsableAfterClear ==
    \A lang \in indexes : \A src \in Sources, text \in Texts :
        LET c == clear_index(State, sugg, lang, <<>>, {})
            a == add_page(c.st, src.doc_id, src.path, text, lang, 1, "")
            d == a.st.disk[lang].docs
        IN  c.status = "ok" =>
              /\ a.status = "ok"
              /\ Len(d) = 1
              /\ d[1].doc_id = Uid(src.doc_id, src.path, 1, "")
              /\ d[1].doc_id \in HitIds(search(a.st, <<w_act, w_court>>, lang, PARTIAL, <<>>))

====
